---- MODULE Spec2Model ----
(***************************************************************************)
(* A model of the craigslist car-listing pipeline:                         *)
(*   cloud_function/extract.py             parse_fields, extract_http      *)
(*   cloud_function/materialize-master     materialize_http, _write_csv   *)
(*   cloud_function/train-dt               run_once, train_dt_http         *)
(* Texts are sequences of symbols.  A symbol is one character ("0".."9",   *)
(* ",", ".", "$", ":", "-", " ", "k") or one whole word: "L" is the word   *)
(* mileage/odometer, "M" is one of mi/mile/miles, "W" is a capitalised     *)
(* word [A-Z][a-z]+ and "w" any other lower-case word.                     *)
(***************************************************************************)
EXTENDS Integers, Sequences, FiniteSets, TLC

VARIABLES
  text,       \* parse_fields: the text being parsed
  ppc,        \* parse_fields: position in the function
  out,        \* parse_fields: the dict `out`
  mileage,    \* parse_fields: the local `mileage`
  tried,      \* parse_fields: the mileage tiers whose re.search has run
  nfrag,      \* the number of pieces the text was built from
  df,         \* train-dt: the rows of the dataset at DATA_KEY, by kind
  dataState,  \* train-dt: "absent", "no_columns" or "ok"
  nblocks,    \* train-dt: the number of blocks of rows added to df
  tpc,        \* run_once: position in the function
  dry_run,    \* run_once: the dry_run argument
  today,      \* run_once: the local `today`
  train_df,   \* run_once: the local `train_df`
  holdout_df, \* run_once: the local `holdout_df`
  fitted,     \* run_once: whether pipe.fit has run
  preds_df,   \* run_once: the local `preds_df`
  predictions,\* the objects under OUTPUT_PREFIX: holdout date -> rows written
  tresponse,  \* train_dt_http: the response, <<status, HTTP code>>
  env_bucket, \* whether GCS_BUCKET is set
  scrapes,    \* the run folders under scrapes/ (each holds every post's .txt)
  overlap,    \* whether the surrounding system lets handlers overlap
  jsonl,      \* structured/run_id=<r>/jsonl/<p>.jsonl : the object's content
  csvs,       \* structured/run_id=<r>/csv/<p>.csv : the object's content
  clock,      \* the wall clock, as read by datetime.now
  faults,     \* the number of I/O failures so far
  epc,        \* extract_http: position in the handler
  run_id,     \* extract_http: the local `run_id`
  scraped_at_iso, \* extract_http: the local `scraped_at_iso`
  overwrite,  \* extract_http: the local `overwrite`
  txt_blobs,  \* extract_http: the units still to process
  counts,     \* extract_http: processed, written_jsonl, written_csv, skipped, errors
  eresponse,  \* extract_http: the response
  overwrote,  \* extract_http: whether this request replaced an existing output
  objects,    \* structured/datasets/: object name -> content (lines)
  mpc,        \* materialize_http: position of each invocation
  latest_by_post, \* materialize_http: the local `latest_by_post` of each
  finalAtStart,   \* the published table when each invocation started
  mresponse,  \* materialize_http: the response of each invocation
  promoted,   \* the table built by the invocation that copied last
  nmerges     \* the number of materialize_http requests so far

parseVars == <<text, ppc, out, mileage, tried, nfrag>>
trainVars ==
  <<df, dataState, nblocks, tpc, dry_run, today, train_df, holdout_df,
    fitted, preds_df, predictions, tresponse>>
extractVars ==
  <<env_bucket, scrapes, overlap, jsonl, csvs, clock, faults, epc, run_id,
    scraped_at_iso, overwrite, txt_blobs, counts, eresponse, overwrote>>
mergeVars ==
  <<objects, mpc, latest_by_post, finalAtStart, mresponse, promoted, nmerges>>
vars == <<parseVars, trainVars, extractVars, mergeVars>>

\* Python's None: NoMatch where a match object or a string is expected, NoInt
\* where an integer is (every integer the program computes is >= 0)
NoMatch == <<>>
NoInt == -1

-----------------------------------------------------------------------------
(* Characters and numbers *)

Digits == {"0", "1", "2", "3", "4", "5", "6", "7", "8", "9"}

DigitVal(c) ==
  CASE c = "0" -> 0 [] c = "1" -> 1 [] c = "2" -> 2 [] c = "3" -> 3
    [] c = "4" -> 4 [] c = "5" -> 5 [] c = "6" -> 6 [] c = "7" -> 7
    [] c = "8" -> 8 [] c = "9" -> 9

IsDigit(c) == c \in Digits
IsSpace(c) == c = " "
\* \w of the re module: letters and digits (words are single symbols)
IsWordChar(c) == c \in Digits \cup {"k", "L", "M", "W", "w"}

\* s.replace(",", "") and re.sub(r"[^\d]", "", s): the digits of s, in order
OnlyDigits(s) == SelectSeq(s, IsDigit)

RECURSIVE DecimalValue(_)
\* int(s) of a non-empty string of digits
DecimalValue(s) ==
  IF s = <<>> THEN 0
  ELSE 10 * DecimalValue(SubSeq(s, 1, Len(s) - 1)) + DigitVal(s[Len(s)])

\* int(s) for a string of digits and commas stripped to its digits:
\* ValueError (NoInt here) when nothing is left
IntOf(s) == IF OnlyDigits(s) = <<>> THEN NoInt ELSE DecimalValue(OnlyDigits(s))

RECURSIVE Pow10(_)
Pow10(n) == IF n = 0 THEN 1 ELSE 10 * Pow10(n - 1)

\* int(float(s) * 1000) for s = whole or whole.frac; exact for the fractions
\* of the model's texts (.5), which binary floating point represents exactly
KiloOf(whole, frac) ==
  DecimalValue(whole) * 1000
    + (DecimalValue(frac) * 1000) \div Pow10(Len(frac))

\* the least element of a non-empty set of numbers
Least(S) == CHOOSE x \in S : \A y \in S : x <= y

\* the end (exclusive) of the longest run of symbols satisfying P from i
RunEnd(t, i, P(_)) ==
  IF i > Len(t) THEN i
  ELSE Least({j \in i..(Len(t) + 1) : j = Len(t) + 1 \/ ~P(t[j])})

-----------------------------------------------------------------------------
(* The regular expressions of parse_fields.  Each XxxAt(t, i) is the match   *)
(* starting at position i (NoMatch when there is none); re.search returns the  *)
(* match at the leftmost position that has one.                             *)

Search(t, At(_, _)) ==
  LET hits == {i \in 1..Len(t) : At(t, i) # NoMatch}
  IN  IF hits = {} THEN NoMatch ELSE At(t, Least(hits))

IsNumChar(c) == c \in Digits \cup {","}

\* PRICE_RE = \$\s?([0-9,]+) ; the value is group(1)
PriceAt(t, i) ==
  IF t[i] # "$" THEN NoMatch
  ELSE LET j == IF i + 1 <= Len(t) /\ IsSpace(t[i + 1]) THEN i + 2 ELSE i + 1
           e == RunEnd(t, j, IsNumChar)
       IN  IF e > j THEN SubSeq(t, j, e - 1) ELSE NoMatch

\* a word boundary between positions i-1 and i
Boundary(t, i) ==
  LET before == i > 1 /\ i - 1 <= Len(t) /\ IsWordChar(t[i - 1])
      after  == i >= 1 /\ i <= Len(t) /\ IsWordChar(t[i])
  IN  before # after

\* YEAR_RE = \b(19|20)\d{2}\b ; the value is group(0)
YearAt(t, i) ==
  IF /\ i + 3 <= Len(t)
     /\ Boundary(t, i)
     /\ <<t[i], t[i + 1]>> \in {<<"1", "9">>, <<"2", "0">>}
     /\ IsDigit(t[i + 2]) /\ IsDigit(t[i + 3])
     /\ Boundary(t, i + 4)
  THEN SubSeq(t, i, i + 3)
  ELSE NoMatch

\* MAKE_MODEL_RE = \b([A-Z][a-z]+)\s+([A-Z][A-Za-z0-9]+) ; the value is
\* <<group(1), group(2)>>.  Group 1 is the word "W" and the lower-case
\* letters that follow it, group 2 the word "W" and the letters and digits
\* that follow it.
IsLower(c) == c \in {"k", "L", "M", "w"}

MakeModelAt(t, i) ==
  IF t[i] # "W" \/ ~Boundary(t, i) THEN NoMatch
  ELSE LET a == RunEnd(t, i + 1, IsLower)
           j == RunEnd(t, a, IsSpace)
       IN  IF j > a /\ j <= Len(t) /\ t[j] = "W"
           THEN <<SubSeq(t, i, a - 1), SubSeq(t, j, RunEnd(t, j + 1, IsWordChar) - 1)>>
           ELSE NoMatch

\* (?:mileage|odometer)\s*[:\-]?\s*([\d,]+) ; the value is group(1)
Tier1At(t, i) ==
  IF t[i] # "L" THEN NoMatch
  ELSE LET a == RunEnd(t, i + 1, IsSpace)
           b == IF a <= Len(t) /\ t[a] \in {":", "-"} THEN a + 1 ELSE a
           c == RunEnd(t, b, IsSpace)
           e == RunEnd(t, c, IsNumChar)
       IN  IF e > c THEN SubSeq(t, c, e - 1) ELSE NoMatch

\* \s*(?:mi|mile|miles)\b from position i
UnitFollows(t, i) ==
  LET j == RunEnd(t, i, IsSpace)
  IN  j <= Len(t) /\ t[j] = "M" /\ Boundary(t, j + 1)

\* \s*k\s*(?:mi|mile|miles)\b from position i
KiloUnitFollows(t, i) ==
  LET j == RunEnd(t, i, IsSpace)
  IN  j <= Len(t) /\ t[j] = "k" /\ UnitFollows(t, j + 1)

\* (\d+(?:\.\d+)?)\s*k\s*(?:mi|mile|miles)\b ; the value is group(1) as
\* <<whole, frac>>.  \d+ cannot give digits back: what follows must be ".", a
\* space or "k".
Tier2At(t, i) ==
  IF ~IsDigit(t[i]) THEN NoMatch
  ELSE LET e == RunEnd(t, i, IsDigit)
           f == IF e <= Len(t) /\ t[e] = "." THEN RunEnd(t, e + 1, IsDigit) ELSE e
       IN  IF f > e + 1 /\ KiloUnitFollows(t, f)
           THEN <<SubSeq(t, i, e - 1), SubSeq(t, e + 1, f - 1)>>
           ELSE IF KiloUnitFollows(t, e)
           THEN <<SubSeq(t, i, e - 1), <<>>>>
           ELSE NoMatch

\* (\d{1,3}(?:[,\d]{3})*)\s*(?:mi|mile|miles)\b ; the value is group(1).  The
\* group ends where the run of digits and commas ends (the unit must follow),
\* so its length n fixes the length of the leading \d{1,3}: n - 3g in 1..3.
Tier3At(t, i) ==
  LET e    == RunEnd(t, i, IsNumChar)
      n    == e - i
      lead == ((n - 1) % 3) + 1
  IN  IF /\ n >= 1
         /\ \A k \in i..(i + lead - 1) : IsDigit(t[k])
         /\ UnitFollows(t, e)
      THEN SubSeq(t, i, e - 1)
      ELSE NoMatch

-----------------------------------------------------------------------------
(* parse_fields, statement by statement *)

\* a dict with one more key
Put(d, k, v) == (k :> v) @@ d
Has(d, k) == k \in DOMAIN d
EmptyDict == <<>>

\* lines 39-44
PriceStmt(t, o) ==
  LET m == Search(t, PriceAt)
  IN  IF m # NoMatch /\ IntOf(m) # NoInt THEN Put(o, "price_usd", IntOf(m)) ELSE o

\* lines 47-52
YearStmt(t, o) ==
  LET y == Search(t, YearAt)
  IN  IF y # NoMatch THEN Put(o, "year", DecimalValue(y)) ELSE o

\* lines 55-58
MakeModelStmt(t, o) ==
  LET mm == Search(t, MakeModelAt)
  IN  IF mm # NoMatch THEN Put(Put(o, "make", mm[1]), "model", mm[2]) ELSE o

\* lines 63-68: the result of tier 1, NoInt when no match or the cast fails
Tier1Result(t) ==
  LET m1 == Search(t, Tier1At) IN IF m1 = NoMatch THEN NoInt ELSE IntOf(m1)

\* lines 71-76
Tier2Result(t) ==
  LET m2 == Search(t, Tier2At) IN IF m2 = NoMatch THEN NoInt ELSE KiloOf(m2[1], m2[2])

\* lines 79-84
Tier3Result(t) ==
  LET m3 == Search(t, Tier3At) IN IF m3 = NoMatch THEN NoInt ELSE IntOf(m3)

\* line 63: tier 1 is always searched
Tier1Stmt(t, mil) == Tier1Result(t)

\* An ordering bug: the shorthand tier overrides a labeled mileage
Tier2StmtUnguarded(t, mil) ==
  IF Tier2Result(t) # NoInt THEN Tier2Result(t) ELSE mil

\* line 70: tier 2 is searched only while mileage is None (NoInt)
Tier2Stmt(t, mil) == IF mil = NoInt THEN Tier2Result(t) ELSE mil

\* line 78
Tier3Stmt(t, mil) == IF mil = NoInt THEN Tier3Result(t) ELSE mil

\* lines 86-87
MileageStmt(o, mil) == IF mil # NoInt THEN Put(o, "mileage_mi", mil) ELSE o

\* parse_fields(text) as a function
parse_fields(t) ==
  MileageStmt(MakeModelStmt(t, YearStmt(t, PriceStmt(t, EmptyDict))),
              Tier3Stmt(t, Tier2Stmt(t, Tier1Stmt(t, NoInt))))

-----------------------------------------------------------------------------
(* parse_fields as a process: one step per statement *)


\* the pieces texts are built from: "mileage: 50,000", "80k miles", " ",
\* "mileage: ,", "7,500 miles", "12.5k miles", "k miles",
\* "$4,500", "2015", "Honda Civic"
Fragments ==
  { <<"L", ":", " ", "5", "0", ",", "0", "0", "0">>,
    <<"8", "0", "k", " ", "M">>,
    <<" ">>,
    <<"L", ":", " ", ",">>,
    <<"7", ",", "5", "0", "0", " ", "M">>,
    <<"1", "2", ".", "5", "k", " ", "M">>,
    <<"k", " ", "M">>,
    <<"$", "4", ",", "5", "0", "0">>,
    <<"2", "0", "1", "5">>,
    <<"W", " ", "W">> }

\* the number of pieces of a text
MaxFrags == 3

\* Python's integers are unbounded; the texts of the model hold no number of
\* more than MaxDigits digits
MaxDigits == 5

DigitsFit(t) ==
  \A i \in 1..Len(t) :
    Len(OnlyDigits(SubSeq(t, i, RunEnd(t, i, IsNumChar) - 1))) <= MaxDigits

ParseIdle ==
  /\ text = <<>>
  /\ ppc = "text"
  /\ out = EmptyDict
  /\ mileage = NoInt
  /\ tried = {}
  /\ nfrag = 0

AppendFragment(f) ==
  /\ ppc = "text"
  /\ nfrag < MaxFrags
  /\ nfrag' = nfrag + 1
  /\ DigitsFit(text \o f)
  /\ text' = text \o f
  /\ UNCHANGED <<ppc, out, mileage, tried>>
  /\ UNCHANGED <<trainVars, extractVars, mergeVars>>

\* lines 36-44: out = {} and the price
ParsePrice ==
  /\ ppc = "text"
  /\ out' = PriceStmt(text, EmptyDict)
  /\ ppc' = "year"
  /\ UNCHANGED <<text, mileage, tried, nfrag>>
  /\ UNCHANGED <<trainVars, extractVars, mergeVars>>

ParseYear ==
  /\ ppc = "year"
  /\ out' = YearStmt(text, out)
  /\ ppc' = "make_model"
  /\ UNCHANGED <<text, mileage, tried, nfrag>>
  /\ UNCHANGED <<trainVars, extractVars, mergeVars>>

ParseMakeModel ==
  /\ ppc = "make_model"
  /\ out' = MakeModelStmt(text, out)
  /\ ppc' = "tier1"
  /\ UNCHANGED <<text, mileage, tried, nfrag>>
  /\ UNCHANGED <<trainVars, extractVars, mergeVars>>

\* lines 61-68
ParseTier1 ==
  /\ ppc = "tier1"
  /\ mileage' = Tier1Stmt(text, NoInt)
  /\ tried' = {1}
  /\ ppc' = "tier2"
  /\ UNCHANGED <<text, out, nfrag>>
  /\ UNCHANGED <<trainVars, extractVars, mergeVars>>

\* lines 70-76
ParseTier2 ==
  /\ ppc = "tier2"
  /\ mileage' = Tier2Stmt(text, mileage)
  /\ tried' = IF mileage = NoInt THEN tried \cup {2} ELSE tried
  /\ ppc' = "tier3"
  /\ UNCHANGED <<text, out, nfrag>>
  /\ UNCHANGED <<trainVars, extractVars, mergeVars>>

\* lines 78-84
ParseTier3 ==
  /\ ppc = "tier3"
  /\ mileage' = Tier3Stmt(text, mileage)
  /\ tried' = IF mileage = NoInt THEN tried \cup {3} ELSE tried
  /\ ppc' = "return"
  /\ UNCHANGED <<text, out, nfrag>>
  /\ UNCHANGED <<trainVars, extractVars, mergeVars>>

\* lines 86-89
ParseReturn ==
  /\ ppc = "return"
  /\ out' = MileageStmt(out, mileage)
  /\ ppc' = "done"
  /\ UNCHANGED <<text, mileage, tried, nfrag>>
  /\ UNCHANGED <<trainVars, extractVars, mergeVars>>

ParseNext ==
  \/ \E f \in Fragments : AppendFragment(f)
  \/ ParsePrice
  \/ ParseYear
  \/ ParseMakeModel
  \/ ParseTier1
  \/ ParseTier2
  \/ ParseTier3
  \/ ParseReturn

-----------------------------------------------------------------------------
(* train-dt/main.py: run_once and train_dt_http.  A row of the dataset is   *)
(* known by the calendar date of its scraped_at (NaT when pd.to_datetime    *)
(* cannot parse it) and by whether pd.to_numeric gives its price a value;  *)
(* df counts the rows of each kind.                                         *)


NaT == 0
Dates == 1..3
RowKinds == [date : Dates \cup {NaT}, price : BOOLEAN]
NoRows == [k \in RowKinds |-> 0]

\* line 70: the minimum number of training rows
MinTrainRows == 40
\* line 53: the minimum number of distinct dates
MinDates == 2

\* the number of blocks of rows a dataset is built from
MaxBlocks == 3
BlockSizes == {1, MinTrainRows - 1}

RECURSIVE SumOver(_, _)
SumOver(S, b) ==
  IF S = {} THEN 0
  ELSE LET k == CHOOSE x \in S : TRUE IN b[k] + SumOver(S \ {k}, b)

\* len(frame)
Rows(b) == SumOver(RowKinds, b)

\* frame[mask]
Where(b, Mask(_)) == [k \in RowKinds |-> IF Mask(k) THEN b[k] ELSE 0]

\* line 52: sorted(d for d in df["date"].dropna().unique()), as a set
DistinctDates(b) == {d \in Dates : \E k \in RowKinds : k.date = d /\ b[k] > 0}

Greatest(S) == CHOOSE x \in S : \A y \in S : y <= x

\* line 53
NotEnoughDates(dates) == Cardinality(dates) < MinDates

\* An off-by-one bug: 39 rows are accepted
TooFewRowsOffByOne(n) == n < MinTrainRows - 1

\* line 70
TooFewRows(n) == n < MinTrainRows

\* A bug: the rows without a date are not left out of the comparison
TrainPartitionWithNaT(b, t) == Where(b, LAMBDA k : k.date < t)

\* line 58: df[df["date"] < today]; a NaT date compares False
TrainPartition(b, t) == Where(b, LAMBDA k : k.date # NaT /\ k.date < t)

\* line 59: df[df["date"] == today]
HoldoutPartition(b, t) == Where(b, LAMBDA k : k.date # NaT /\ k.date = t)

\* line 69: train_df[train_df["price"].notna()]
WithPrice(b) == Where(b, LAMBDA k : k.price)

\* train_dt_http, lines 142-147: the HTTP code of a result
HttpCode(status) ==
  IF status = "ok" THEN 200 ELSE IF status = "error" THEN 500 ELSE 204

TrainIdle ==
  /\ df = NoRows
  /\ dataState = "ok"
  /\ nblocks = 0
  /\ tpc = "data"
  /\ dry_run = FALSE
  /\ today = NaT
  /\ train_df = NoRows
  /\ holdout_df = NoRows
  /\ fitted = FALSE
  /\ preds_df = NoRows
  /\ predictions = [d \in Dates |-> NoRows]
  /\ tresponse = <<"none", 0>>

TrainInit ==
  /\ df = NoRows
  /\ dataState \in {"absent", "no_columns", "ok"}
  /\ nblocks = 0
  /\ tpc = "data"
  /\ dry_run = FALSE
  /\ today = NaT
  /\ train_df = NoRows
  /\ holdout_df = NoRows
  /\ fitted = FALSE
  /\ preds_df = NoRows
  /\ predictions = [d \in Dates |-> NoRows]
  /\ tresponse = <<"none", 0>>

\* the dataset gets n more rows of kind k
AddRows(k, n) ==
  /\ tpc = "data"
  /\ dataState = "ok"
  /\ nblocks < MaxBlocks
  /\ nblocks' = nblocks + 1
  /\ df' = [df EXCEPT ![k] = @ + n]
  /\ UNCHANGED <<dataState, tpc, dry_run, today, train_df, holdout_df,
                 fitted, preds_df, predictions, tresponse>>
  /\ UNCHANGED <<parseVars, extractVars, mergeVars>>

\* train_dt_http, lines 136-141: the request is read and run_once called
TrainRequest(dry) ==
  /\ tpc = "data"
  /\ dry_run' = dry
  /\ tpc' = "read"
  /\ UNCHANGED <<df, dataState, nblocks, today, train_df, holdout_df,
                 fitted, preds_df, predictions, tresponse>>
  /\ UNCHANGED <<parseVars, extractVars, mergeVars>>

\* lines 40-46 fail: no object at DATA_KEY, or a required column is missing;
\* train_dt_http answers 500
TrainReadFails ==
  /\ tpc = "read"
  /\ dataState # "ok"
  /\ tresponse' = <<"error", HttpCode("error")>>
  /\ tpc' = "done"
  /\ UNCHANGED <<df, dataState, nblocks, dry_run, today, train_df,
                 holdout_df, fitted, preds_df, predictions>>
  /\ UNCHANGED <<parseVars, extractVars, mergeVars>>

\* lines 40-54, fewer than two distinct dates
TrainNoopDates ==
  /\ tpc = "read"
  /\ dataState = "ok"
  /\ NotEnoughDates(DistinctDates(df))
  /\ tresponse' = <<"noop", HttpCode("noop")>>
  /\ tpc' = "done"
  /\ UNCHANGED <<df, dataState, nblocks, dry_run, today, train_df,
                 holdout_df, fitted, preds_df, predictions>>
  /\ UNCHANGED <<parseVars, extractVars, mergeVars>>

\* lines 40-69: the split, and the training rows with a price
TrainSplit ==
  /\ tpc = "read"
  /\ dataState = "ok"
  /\ ~NotEnoughDates(DistinctDates(df))
  /\ today' = Greatest(DistinctDates(df))
  /\ train_df' = WithPrice(TrainPartition(df, today'))
  /\ holdout_df' = HoldoutPartition(df, today')
  /\ tpc' = "rows"
  /\ UNCHANGED <<df, dataState, nblocks, dry_run, fitted, preds_df,
                 predictions, tresponse>>
  /\ UNCHANGED <<parseVars, extractVars, mergeVars>>

\* lines 70-71
TrainNoopRows ==
  /\ tpc = "rows"
  /\ TooFewRows(Rows(train_df))
  /\ tresponse' = <<"noop", HttpCode("noop")>>
  /\ tpc' = "done"
  /\ UNCHANGED <<df, dataState, nblocks, dry_run, today, train_df,
                 holdout_df, fitted, preds_df, predictions>>
  /\ UNCHANGED <<parseVars, extractVars, mergeVars>>

\* lines 73-99
TrainFit ==
  /\ tpc = "rows"
  /\ ~TooFewRows(Rows(train_df))
  /\ fitted' = TRUE
  /\ tpc' = "predict"
  /\ UNCHANGED <<df, dataState, nblocks, dry_run, today, train_df,
                 holdout_df, preds_df, predictions, tresponse>>
  /\ UNCHANGED <<parseVars, extractVars, mergeVars>>

\* lines 102-113: one prediction per holdout row
TrainPredict ==
  /\ tpc = "predict"
  /\ preds_df' = IF Rows(holdout_df) > 0 THEN holdout_df ELSE NoRows
  /\ tpc' = "write"
  /\ UNCHANGED <<df, dataState, nblocks, dry_run, today, train_df,
                 holdout_df, fitted, predictions, tresponse>>
  /\ UNCHANGED <<parseVars, extractVars, mergeVars>>

\* lines 116-131: the predictions are written unless dry_run
TrainWrite ==
  /\ tpc = "write"
  /\ predictions' = IF ~dry_run /\ Rows(preds_df) > 0
                    THEN [predictions EXCEPT ![today] = preds_df]
                    ELSE predictions
  /\ tresponse' = <<"ok", HttpCode("ok")>>
  /\ tpc' = "done"
  /\ UNCHANGED <<df, dataState, nblocks, dry_run, today, train_df,
                 holdout_df, fitted, preds_df>>
  /\ UNCHANGED <<parseVars, extractVars, mergeVars>>

\* line 118 raises (the upload fails); train_dt_http answers 500
TrainWriteFails ==
  /\ tpc = "write"
  /\ ~dry_run /\ Rows(preds_df) > 0
  /\ tresponse' = <<"error", HttpCode("error")>>
  /\ tpc' = "done"
  /\ UNCHANGED <<df, dataState, nblocks, dry_run, today, train_df,
                 holdout_df, fitted, preds_df, predictions>>
  /\ UNCHANGED <<parseVars, extractVars, mergeVars>>

TrainNext ==
  \/ \E k \in RowKinds, n \in BlockSizes : AddRows(k, n)
  \/ \E dry \in BOOLEAN : TrainRequest(dry)
  \/ TrainReadFails
  \/ TrainNoopDates
  \/ TrainSplit
  \/ TrainNoopRows
  \/ TrainFit
  \/ TrainPredict
  \/ TrainWrite
  \/ TrainWriteFails

-----------------------------------------------------------------------------
(* Strings, run ids and the objects of the bucket.  A run id is the string  *)
(* 202501DDT000000Z; the model keeps its day field DD, a string of two      *)
(* characters, the other characters being the same in every id.             *)


PostIds == {"p1", "p2"}
\* list_blobs returns names in lexicographic order
PostOrder == <<"p1", "p2">>

AllRunIds == { <<"0", "1">>, <<"0", "2">>, <<"0", "3">>, <<"0", "0">> }
\* a request without run_id, and an object that does not exist
Absent == <<>>
NoBlob == <<>>

CharCode(c) == IF IsDigit(c) THEN 48 + DigitVal(c) ELSE 120

\* Python's a < b on strings
RECURSIVE StrLess(_, _)
StrLess(a, b) ==
  IF a = <<>> THEN b # <<>>
  ELSE IF b = <<>> THEN FALSE
  ELSE IF CharCode(a[1]) # CharCode(b[1]) THEN CharCode(a[1]) < CharCode(b[1])
  ELSE StrLess(Tail(a), Tail(b))

StrGreater(a, b) == StrLess(b, a)

\* sorted(S) for a set of strings
RECURSIVE Sorted(_)
Sorted(S) ==
  IF S = {} THEN <<>>
  ELSE LET least == CHOOSE x \in S : \A y \in S \ {x} : StrLess(x, y)
       IN  <<least>> \o Sorted(S \ {least})

\* RUN_ID_RE.match(rid): ^\d{8}T\d{6}Z$
RunIdMatches(rid) == Len(rid) = 2 /\ \A i \in 1..Len(rid) : IsDigit(rid[i])

\* datetime.strptime(rid, "%Y%m%dT%H%M%SZ") succeeds: %d takes one or two
\* digits that make a day of January
StrptimeOk(rid) ==
  /\ Len(rid) \in {1, 2}
  /\ \A i \in 1..Len(rid) : IsDigit(rid[i])
  /\ (rid[1] = "0" => Len(rid) = 2)
  /\ DecimalValue(rid) \in 1..31

\* An eager bug: the wall clock is read for every run id
parse_run_id_iso_clock(rid, now) == <<"clock", now>>

\* parse_run_id_iso: the ISO form of the run's time, else of the wall clock
parse_run_id_iso(rid, now) ==
  IF StrptimeOk(rid) THEN <<"run", DecimalValue(rid)>> ELSE <<"clock", now>>

\* str(n)
RECURSIVE DecimalString(_)
DecimalString(n) ==
  IF n < 10 THEN <<CHOOSE c \in Digits : DigitVal(c) = n>>
  ELSE DecimalString(n \div 10) \o DecimalString(n % 10)

NumericKeys == {"price_usd", "year", "mileage_mi", "price", "mileage"}

\* a CSV cell: "" for a missing key, else str(value)
CellText(rec, k) ==
  IF ~Has(rec, k) THEN <<>>
  ELSE IF k \in NumericKeys THEN DecimalString(rec[k])
  ELSE IF k = "post_id" THEN <<rec[k]>>
  ELSE rec[k]

Get(d, k, default) == IF Has(d, k) THEN d[k] ELSE default

\* the .txt of post pid in run rid: "$<price> mileage: <n>0,000", the price
\* growing with the run
SourceText(rid, pid) ==
  LET pd == IF pid = "p1" THEN "1" ELSE "2"
      rd == IF IsDigit(rid[Len(rid)]) THEN rid[Len(rid)] ELSE "9"
  IN  <<"$", pd, rd, "0", "0", " ", "L", ":", " ", pd, "0", ",", "0", "0", "0">>

\* list_txt_blob_names
list_txt_blob_names(rid) == IF rid \in scrapes THEN PostOrder ELSE <<>>

\* _list_latest_run_id: sorted(candidates)[-1], or None (Absent)
list_latest_run_id ==
  LET candidates == {r \in scrapes : RunIdMatches(r)}
  IN  IF candidates = {} THEN Absent
      ELSE Sorted(candidates)[Cardinality(candidates)]

\* extract_http lines 205-210
BuildRecord(pid, rid, iso, fields) ==
  fields @@ ("post_id" :> pid) @@ ("run_id" :> rid) @@ ("scraped_at" :> iso)

\* upload_jsonl / json.loads: a dict of strings and integers survives
\* json.dumps and json.loads unchanged
JsonDumps(rec) == <<"json", rec>>
Garbage == <<"garbage">>
JsonDecodes(blob) == blob # NoBlob /\ blob[1] = "json"
JsonLoads(blob) == blob[2]

\* an object extract_http did not write: under the name p2.jsonl of the run
\* 20250101T000000Z, a record of the post p1 in that same run
ForeignTwin ==
  JsonDumps(("post_id" :> "p1") @@ ("run_id" :> <<"0", "1">>)
            @@ ("scraped_at" :> <<"run", 1>>) @@ ("price_usd" :> 999))

\* extract_http lines 217-230 and upload_csv_row
ExtractHeader ==
  <<"post_id", "run_id", "scraped_at", "price_usd", "year", "make", "model",
    "mileage_mi">>
CsvRowBlob(rec) ==
  <<ExtractHeader, [i \in 1..Len(ExtractHeader) |-> CellText(rec, ExtractHeader[i])]>>

-----------------------------------------------------------------------------
(* extract.py: extract_http, one step per unit *)

\* the number of I/O failures of a behaviour
MaxFaults == 1
\* the readings of the wall clock
MaxClock == 1

\* s[:n]
Slice(s, n) == SubSeq(s, 1, IF n < Len(s) THEN n ELSE Len(s))

ZeroCounts ==
  [processed |-> 0, written_jsonl |-> 0, written_csv |-> 0, skipped |-> 0,
   errors |-> 0]

NoBlobs == [r \in AllRunIds |-> [p \in PostIds |-> NoBlob]]

\* extract_http is not running
ExtractLocalsIdle ==
  /\ epc = "idle"
  /\ run_id = Absent
  /\ scraped_at_iso = <<"run", 0>>
  /\ overwrite = TRUE
  /\ txt_blobs = <<>>
  /\ counts = ZeroCounts
  /\ overwrote = FALSE

ExtractIdle ==
  /\ env_bucket = TRUE
  /\ scrapes = {}
  /\ overlap = FALSE
  /\ jsonl = NoBlobs
  /\ csvs = NoBlobs
  /\ clock = 0
  /\ faults = 0
  /\ eresponse = <<"none", 0, ZeroCounts>>
  /\ ExtractLocalsIdle

\* a handler may start: the surrounding system runs them one at a time
\* unless overlap
MergeInFlight == \E m \in DOMAIN mpc : mpc[m] # "idle"
MayStartExtract ==
  /\ epc = "idle"
  /\ overlap \/ ~MergeInFlight

\* lines 152-153
ExtNoBucket ==
  /\ MayStartExtract
  /\ ~env_bucket
  /\ eresponse' = <<"missing GCS_BUCKET env", 500, ZeroCounts>>
  /\ UNCHANGED <<env_bucket, scrapes, overlap, jsonl, csvs, clock, faults, epc,
                 run_id, scraped_at_iso, overwrite, txt_blobs, counts, overwrote>>
  /\ UNCHANGED <<parseVars, trainVars, mergeVars>>

\* lines 167-170: no run_id in the request and none under scrapes/
ExtNoRuns ==
  /\ MayStartExtract
  /\ env_bucket
  /\ list_latest_run_id = Absent
  /\ eresponse' = <<"no run_ids found under scrapes/", 200, ZeroCounts>>
  /\ UNCHANGED <<env_bucket, scrapes, overlap, jsonl, csvs, clock, faults, epc,
                 run_id, scraped_at_iso, overwrite, txt_blobs, counts, overwrote>>
  /\ UNCHANGED <<parseVars, trainVars, mergeVars>>

\* lines 155-184: the request {run_id: rid, max_files: cap, overwrite: ow};
\* the wall clock is read, at now, when the run id does not parse
ExtBegin(rid, cap, ow, now) ==
  /\ MayStartExtract
  /\ env_bucket
  /\ LET resolved == IF rid = Absent THEN list_latest_run_id ELSE rid
         listed   == list_txt_blob_names(resolved)
     IN  /\ resolved # Absent
         /\ now = clock \/ ~StrptimeOk(resolved)
         /\ run_id' = resolved
         /\ scraped_at_iso' = parse_run_id_iso(resolved, now)
         /\ txt_blobs' = IF cap > 0 THEN Slice(listed, cap) ELSE listed
  /\ clock' = now
  /\ overwrite' = (IF ow = "None" THEN TRUE ELSE ow = "true")
  /\ counts' = ZeroCounts
  /\ overwrote' = FALSE
  /\ epc' = "loop"
  /\ UNCHANGED <<env_bucket, scrapes, overlap, jsonl, csvs, faults, eresponse>>
  /\ UNCHANGED <<parseVars, trainVars, mergeVars>>

\* the unit at the head of the loop
Unit == Head(txt_blobs)
Exists(store) == store[run_id][Unit] # NoBlob

\* A bug: processed is counted after the skip of lines 196-199
ExtSkipUncounted ==
  /\ epc = "loop" /\ txt_blobs # <<>>
  /\ ~overwrite /\ Exists(jsonl) /\ Exists(csvs)
  /\ counts' = [counts EXCEPT !.skipped = @ + 1]
  /\ txt_blobs' = Tail(txt_blobs)
  /\ UNCHANGED <<env_bucket, scrapes, overlap, jsonl, csvs, clock, faults, epc,
                 run_id, scraped_at_iso, overwrite, eresponse, overwrote>>
  /\ UNCHANGED <<parseVars, trainVars, mergeVars>>

\* lines 196-199: both outputs exist and overwrite is off
ExtSkip ==
  /\ epc = "loop" /\ txt_blobs # <<>>
  /\ ~overwrite /\ Exists(jsonl) /\ Exists(csvs)
  /\ counts' = [counts EXCEPT !.processed = @ + 1, !.skipped = @ + 1]
  /\ txt_blobs' = Tail(txt_blobs)
  /\ UNCHANGED <<env_bucket, scrapes, overlap, jsonl, csvs, clock, faults, epc,
                 run_id, scraped_at_iso, overwrite, eresponse, overwrote>>
  /\ UNCHANGED <<parseVars, trainVars, mergeVars>>

\* lines 201-210: the record of a unit
UnitRecord(pid, rid, iso) ==
  BuildRecord(pid, rid, iso, parse_fields(SourceText(rid, pid)))

\* lines 201-232: both outputs are written
ExtUnitWritten ==
  /\ epc = "loop" /\ txt_blobs # <<>>
  /\ overwrite \/ ~(Exists(jsonl) /\ Exists(csvs))
  /\ LET record == UnitRecord(Unit, run_id, scraped_at_iso)
     IN  /\ jsonl' = [jsonl EXCEPT ![run_id][Unit] = JsonDumps(record)]
         /\ csvs' = [csvs EXCEPT ![run_id][Unit] = CsvRowBlob(record)]
  /\ overwrote' = (overwrote \/ (Exists(jsonl) /\ Exists(csvs)))
  /\ counts' = [counts EXCEPT !.processed = @ + 1, !.written_jsonl = @ + 1,
                              !.written_csv = @ + 1]
  /\ txt_blobs' = Tail(txt_blobs)
  /\ UNCHANGED <<env_bucket, scrapes, overlap, clock, faults, epc, run_id,
                 scraped_at_iso, overwrite, eresponse>>
  /\ UNCHANGED <<parseVars, trainVars, mergeVars>>

\* exists, download_text or upload_jsonl raises: lines 234-236
ExtUnitFails ==
  /\ epc = "loop" /\ txt_blobs # <<>>
  /\ faults < MaxFaults
  /\ faults' = faults + 1
  /\ counts' = [counts EXCEPT !.processed = @ + 1, !.errors = @ + 1]
  /\ txt_blobs' = Tail(txt_blobs)
  /\ UNCHANGED <<env_bucket, scrapes, overlap, jsonl, csvs, clock, epc, run_id,
                 scraped_at_iso, overwrite, eresponse, overwrote>>
  /\ UNCHANGED <<parseVars, trainVars, mergeVars>>

\* upload_csv_row raises after upload_jsonl succeeded
ExtCsvUploadFails ==
  /\ epc = "loop" /\ txt_blobs # <<>>
  /\ overwrite \/ ~(Exists(jsonl) /\ Exists(csvs))
  /\ faults < MaxFaults
  /\ faults' = faults + 1
  /\ jsonl' = [jsonl EXCEPT ![run_id][Unit] =
                 JsonDumps(UnitRecord(Unit, run_id, scraped_at_iso))]
  /\ counts' = [counts EXCEPT !.processed = @ + 1, !.written_jsonl = @ + 1,
                              !.errors = @ + 1]
  /\ txt_blobs' = Tail(txt_blobs)
  /\ UNCHANGED <<env_bucket, scrapes, overlap, csvs, clock, epc, run_id,
                 scraped_at_iso, overwrite, eresponse, overwrote>>
  /\ UNCHANGED <<parseVars, trainVars, mergeVars>>

\* lines 238-248: the counts are returned and the locals are gone
ExtReturn ==
  /\ epc = "loop" /\ txt_blobs = <<>>
  /\ eresponse' = <<"ok", 200, counts>>
  /\ epc' = "idle"
  /\ run_id' = Absent
  /\ scraped_at_iso' = <<"run", 0>>
  /\ overwrite' = TRUE
  /\ txt_blobs' = <<>>
  /\ counts' = ZeroCounts
  /\ overwrote' = FALSE
  /\ UNCHANGED <<env_bucket, scrapes, overlap, jsonl, csvs, clock, faults>>
  /\ UNCHANGED <<parseVars, trainVars, mergeVars>>

\* a request with any body
ExtRequest(ids) ==
  \E rid \in ids \cup {Absent}, cap \in {0, 1}, ow \in {"None", "true", "false"},
     now \in {clock, clock + 1} :
    now <= MaxClock /\ ExtBegin(rid, cap, ow, now)

\* a request {"run_id": rid}
ExtRequestRun(ids) == \E rid \in ids : ExtBegin(rid, 0, "None", clock)

-----------------------------------------------------------------------------
(* materialize-master/main.py: materialize_http *)

\* the invocations of materialize_http that may be in flight
Procs == {1, 2}

\* the number of materialize_http requests of a behaviour
MaxMerges == 2

NoObject == <<>>
FinalKey == "listings_master.csv"

\* A bug: the table is streamed to the published object itself
TmpKeyIsFinalKey == FinalKey

\* line 120
TmpKey == "listings_master.csv.tmp"

ObjectKeys == {"listings_master.csv.tmp", "listings_master.csv"}

\* lines 27-31
CSV_COLUMNS ==
  <<"post_id", "run_id", "scraped_at", "price", "year", "make", "model",
    "mileage", "source_txt">>

\* _list_run_ids: the sorted run ids, matching RUN_ID_RE, of the folders
\* under structured/ that hold an object
list_run_ids ==
  Sorted({r \in AllRunIds :
            /\ \E p \in PostIds : jsonl[r][p] # NoBlob \/ csvs[r][p] # NoBlob
            /\ RunIdMatches(r)})

\* rec.setdefault(k, v)
SetDefault(rec, k, v) == IF Has(rec, k) THEN rec ELSE Put(rec, k, v)

\* _jsonl_records_for_run: the records of the run's .jsonl objects, in name
\* order; an object that does not decode is skipped
jsonl_records_for_run(rid) ==
  LET blobs   == [i \in 1..Len(PostOrder) |-> jsonl[rid][PostOrder[i]]]
      decoded == SelectSeq(blobs, JsonDecodes)
  IN  [i \in 1..Len(decoded) |-> SetDefault(JsonLoads(decoded[i]), "run_id", rid)]

\* the records the loop of lines 108-109 sees, the runs taken in `order`
RECURSIVE RecordsInOrder(_)
RecordsInOrder(order) ==
  IF order = <<>> THEN <<>>
  ELSE jsonl_records_for_run(Head(order)) \o RecordsInOrder(Tail(order))

\* A bug: the record seen last replaces the entry
SeenLater(a, b) == TRUE

\* A bug: a record of an equal or older run replaces the entry
NewerOrEqual(a, b) == ~StrLess(a, b)

\* line 115: rec.get("run_id", "") > prev.get("run_id", "")
Newer(a, b) == StrGreater(a, b)

\* lines 110-116 for one record; latest_by_post is a dict, here the
\* sequence of its values in insertion order
MergeRecord(latest, rec) ==
  LET pid  == Get(rec, "post_id", "")
      hits == {i \in 1..Len(latest) : latest[i]["post_id"] = pid}
  IN  IF pid = "" THEN latest
      ELSE IF hits = {} THEN Append(latest, rec)
      ELSE LET i == CHOOSE i \in hits : TRUE
           IN  IF Newer(Get(rec, "run_id", <<>>), Get(latest[i], "run_id", <<>>))
               THEN [latest EXCEPT ![i] = rec]
               ELSE latest

\* lines 107-116 over a sequence of records
RECURSIVE MergeAll(_, _)
MergeAll(latest, recs) ==
  IF recs = <<>> THEN latest
  ELSE MergeAll(MergeRecord(latest, Head(recs)), Tail(recs))

\* _write_csv: the header and one row per record, a missing column empty
MasterRow(rec) == [i \in 1..Len(CSV_COLUMNS) |-> CellText(rec, CSV_COLUMNS[i])]
FullCsv(table) == <<CSV_COLUMNS>> \o [i \in 1..Len(table) |-> MasterRow(table[i])]

NoResponse == <<"none", 0, "">>

MergeIdle ==
  /\ objects = [k \in ObjectKeys |-> NoObject]
  /\ mpc = [m \in Procs |-> "idle"]
  /\ latest_by_post = [m \in Procs |-> <<>>]
  /\ finalAtStart = [m \in Procs |-> NoObject]
  /\ mresponse = [m \in Procs |-> NoResponse]
  /\ promoted = NoObject
  /\ nmerges = 0

MayStartMerge(m) ==
  /\ mpc[m] = "idle"
  /\ nmerges < MaxMerges
  /\ overlap \/ (epc = "idle" /\ \A o \in Procs : mpc[o] = "idle")

\* the invocation ends with the response r and its locals are gone
Ends(m, r) ==
  /\ mpc' = [mpc EXCEPT ![m] = "idle"]
  /\ mresponse' = [mresponse EXCEPT ![m] = r]
  /\ latest_by_post' = [latest_by_post EXCEPT ![m] = <<>>]
  /\ finalAtStart' = [finalAtStart EXCEPT ![m] = NoObject]

\* an exception leaves the handler: the framework answers 500
Raises(m, where) == Ends(m, <<"exception", 500, where>>)

Fault ==
  /\ faults < MaxFaults
  /\ faults' = faults + 1
  /\ UNCHANGED <<env_bucket, scrapes, overlap, jsonl, csvs, clock, epc, run_id,
                 scraped_at_iso, overwrite, txt_blobs, counts, eresponse,
                 overwrote>>

\* lines 98-99
MatNoBucket(m) ==
  /\ MayStartMerge(m)
  /\ ~env_bucket
  /\ nmerges' = nmerges + 1
  /\ Ends(m, <<"missing GCS_BUCKET env", 500, "">>)
  /\ UNCHANGED <<objects, promoted>>
  /\ UNCHANGED <<parseVars, trainVars, extractVars>>

\* lines 102-104
MatNoRuns(m) ==
  /\ MayStartMerge(m)
  /\ env_bucket
  /\ list_run_ids = <<>>
  /\ nmerges' = nmerges + 1
  /\ Ends(m, <<"no runs found", 200, "">>)
  /\ UNCHANGED <<objects, promoted>>
  /\ UNCHANGED <<parseVars, trainVars, extractVars>>

\* lines 102-116: every run is read and latest_by_post built
MatScan(m) ==
  /\ MayStartMerge(m)
  /\ env_bucket
  /\ list_run_ids # <<>>
  /\ nmerges' = nmerges + 1
  /\ latest_by_post' =
       [latest_by_post EXCEPT ![m] = MergeAll(<<>>, RecordsInOrder(list_run_ids))]
  /\ finalAtStart' = [finalAtStart EXCEPT ![m] = objects[FinalKey]]
  /\ mpc' = [mpc EXCEPT ![m] = "scanned"]
  /\ UNCHANGED <<objects, mresponse, promoted>>
  /\ UNCHANGED <<parseVars, trainVars, extractVars>>

\* line 55: download_as_text of one record raises, outside the try of
\* lines 59-65, and the exception leaves materialize_http
MatScanFails(m) ==
  /\ MayStartMerge(m)
  /\ env_bucket
  /\ \E i \in 1..Len(list_run_ids), p \in PostIds :
       jsonl[list_run_ids[i]][p] # NoBlob
  /\ Fault
  /\ nmerges' = nmerges + 1
  /\ Raises(m, "download")
  /\ UNCHANGED <<objects, promoted>>
  /\ UNCHANGED <<parseVars, trainVars>>

\* line 123: the whole table is written to the temporary object
MatWriteTmp(m) ==
  /\ mpc[m] = "scanned"
  /\ objects' = [objects EXCEPT ![TmpKey] = FullCsv(latest_by_post[m])]
  /\ mpc' = [mpc EXCEPT ![m] = "written"]
  /\ UNCHANGED <<latest_by_post, finalAtStart, mresponse, promoted, nmerges>>
  /\ UNCHANGED <<parseVars, trainVars, extractVars>>

\* lines 83-90: a write raises after n lines; the finally clause closes the
\* writer, which commits the n lines as the temporary object (commit) or
\* fails too and commits nothing
MatWriteFails(m, n, commit) ==
  /\ mpc[m] = "scanned"
  /\ n \in 1..Len(latest_by_post[m])
  /\ Fault
  /\ objects' = IF commit
                THEN [objects EXCEPT ![TmpKey] = SubSeq(FullCsv(latest_by_post[m]), 1, n)]
                ELSE objects
  /\ Raises(m, "write")
  /\ UNCHANGED <<promoted, nmerges>>
  /\ UNCHANGED <<parseVars, trainVars>>

\* line 129: copy_blob replaces the published object by the temporary one
MatCopy(m) ==
  /\ mpc[m] = "written"
  /\ objects[TmpKey] # NoObject
  /\ objects' = [objects EXCEPT ![FinalKey] = objects[TmpKey]]
  /\ promoted' = FullCsv(latest_by_post[m])
  /\ mpc' = [mpc EXCEPT ![m] = "copied"]
  /\ UNCHANGED <<latest_by_post, finalAtStart, mresponse, nmerges>>
  /\ UNCHANGED <<parseVars, trainVars, extractVars>>

\* line 129 raises: the request fails
MatCopyFails(m) ==
  /\ mpc[m] = "written"
  /\ Fault
  /\ Raises(m, "copy")
  /\ UNCHANGED <<objects, promoted, nmerges>>
  /\ UNCHANGED <<parseVars, trainVars>>

\* line 129 raises NotFound: another invocation deleted the temporary object
MatCopyNotFound(m) ==
  /\ mpc[m] = "written"
  /\ objects[TmpKey] = NoObject
  /\ Raises(m, "copy")
  /\ UNCHANGED <<objects, promoted, nmerges>>
  /\ UNCHANGED <<parseVars, trainVars, extractVars>>

\* lines 130-138: the temporary object is deleted and the counts returned
MatDelete(m) ==
  /\ mpc[m] = "copied"
  /\ objects[TmpKey] # NoObject
  /\ objects' = [objects EXCEPT ![TmpKey] = NoObject]
  /\ Ends(m, <<"ok", 200, "">>)
  /\ UNCHANGED <<promoted, nmerges>>
  /\ UNCHANGED <<parseVars, trainVars, extractVars>>

\* line 130 raises: the request fails after the table was published
MatDeleteFails(m) ==
  /\ mpc[m] = "copied"
  /\ Fault
  /\ Raises(m, "delete")
  /\ UNCHANGED <<objects, promoted, nmerges>>
  /\ UNCHANGED <<parseVars, trainVars>>

\* line 130 raises NotFound: another invocation deleted the temporary object
MatDeleteNotFound(m) ==
  /\ mpc[m] = "copied"
  /\ objects[TmpKey] = NoObject
  /\ Raises(m, "delete")
  /\ UNCHANGED <<objects, promoted, nmerges>>
  /\ UNCHANGED <<parseVars, trainVars, extractVars>>

-----------------------------------------------------------------------------
(* Specifications *)


\* parse_fields over the texts built from Fragments
InitParse == ParseIdle /\ TrainIdle /\ ExtractIdle /\ MergeIdle
SpecParse == InitParse /\ [][ParseNext]_vars

\* run_once over the datasets built from blocks of rows
InitTrain == ParseIdle /\ TrainInit /\ ExtractIdle /\ MergeIdle
SpecTrain == InitTrain /\ [][TrainNext]_vars

\* the bucket before any request: GCS_BUCKET set or not, the scrapes of the
\* runs `ids` there or not, and under structured/ possibly one object, of
\* `foreign`, that extract_http did not write
BucketInit(ids, foreign, over) ==
  /\ env_bucket \in BOOLEAN
  /\ scrapes \in {{}, ids}
  /\ overlap = over
  /\ \E blob \in foreign \cup {NoBlob} :
       jsonl = [NoBlobs EXCEPT ![<<"0", "1">>]["p2"] = blob]
  /\ csvs = NoBlobs
  /\ clock = 0
  /\ faults = 0
  /\ eresponse = <<"none", 0, ZeroCounts>>
  /\ ExtractLocalsIdle

\* extract_http alone, over a run id that parses as a time, 20250101T000000Z,
\* and one that matches RUN_ID_RE and does not, 20250100T000000Z
ExtractRunIds == {<<"0", "1">>, <<"0", "0">>}
InitExtract ==
  /\ ParseIdle /\ TrainIdle /\ MergeIdle
  /\ BucketInit(ExtractRunIds, {}, FALSE)
NextExtract ==
  \/ ExtNoBucket
  \/ ExtNoRuns
  \/ ExtRequest(ExtractRunIds)
  \/ ExtSkip
  \/ ExtUnitWritten
  \/ ExtUnitFails
  \/ ExtCsvUploadFails
  \/ ExtReturn
SpecExtract == InitExtract /\ [][NextExtract]_vars

\* the pipeline, one handler at a time: extract_http for the runs
\* 20250101T000000Z, 20250102T000000Z and 20250103T000000Z, and
\* materialize_http; a unit of extract_http fails as a whole, the per-run
\* CSV objects not being read by materialize_http
PipelineRunIds == {<<"0", "1">>, <<"0", "2">>, <<"0", "3">>}
Init ==
  /\ ParseIdle /\ TrainIdle /\ MergeIdle
  /\ BucketInit(PipelineRunIds, {Garbage, ForeignTwin}, FALSE)
Next ==
  \/ ExtNoBucket
  \/ ExtRequestRun(PipelineRunIds)
  \/ ExtUnitWritten
  \/ ExtUnitFails
  \/ ExtReturn
  \/ MatNoBucket(1)
  \/ MatNoRuns(1)
  \/ MatScan(1)
  \/ MatScanFails(1)
  \/ MatWriteTmp(1)
  \/ \E n \in 1..Cardinality(PostIds), commit \in BOOLEAN : MatWriteFails(1, n, commit)
  \/ MatCopy(1)
  \/ MatCopyFails(1)
  \/ MatDelete(1)
  \/ MatDeleteFails(1)
Spec == Init /\ [][Next]_vars

\* two overlapping invocations of materialize_http, and extract_http, with
\* no I/O failure
ConcRunIds == {<<"0", "1">>, <<"0", "2">>}
InitConc ==
  /\ ParseIdle /\ TrainIdle /\ MergeIdle
  /\ BucketInit(ConcRunIds, {}, TRUE)
  /\ env_bucket /\ scrapes # {}
NextConc ==
  \/ ExtRequestRun(ConcRunIds)
  \/ ExtUnitWritten
  \/ ExtReturn
  \/ \E m \in Procs : MatScan(m)
  \/ \E m \in Procs : MatWriteTmp(m)
  \/ \E m \in Procs : MatCopy(m)
  \/ \E m \in Procs : MatCopyNotFound(m)
  \/ \E m \in Procs : MatDelete(m)
  \/ \E m \in Procs : MatDeleteNotFound(m)
SpecConc == InitConc /\ [][NextConc]_vars

-----------------------------------------------------------------------------
(* C1 *)

Range(s) == {s[i] : i \in 1..Len(s)}

\* the orders in which the runs may be taken
RunOrders(s) == {q \in [1..Len(s) -> Range(s)] : Range(q) = Range(s)}

\* e is a record of recs, and no record of its post comes from a later run
FromGreatestRun(e, recs) ==
  /\ e \in recs
  /\ \A r \in recs :
       r["post_id"] = e["post_id"] => ~StrGreater(r["run_id"], e["run_id"])

\* C1: once materialize_http has merged the runs, latest_by_post holds
\* exactly one entry for every post that has a record in some run, the entry
\* is a record of the greatest run id among the records of that post, and
\* taking the runs in any other order builds the same entries.
C1_MergeKeepsLatestRun ==
  \A m \in Procs :
    mpc[m] # "idle" =>
      LET recs  == Range(RecordsInOrder(list_run_ids))
          table == latest_by_post[m]
      IN  /\ \A r \in recs :
               Cardinality({i \in 1..Len(table) :
                              table[i]["post_id"] = r["post_id"]}) = 1
          /\ \A i \in 1..Len(table) : FromGreatestRun(table[i], recs)
          /\ \A order \in RunOrders(list_run_ids) :
               Range(MergeAll(<<>>, RecordsInOrder(order))) = Range(table)

\* a merge of three runs: p1 has a record in the first and in the last
C1_Witness ==
  /\ mpc[1] = "scanned"
  /\ Len(list_run_ids) = 3
  /\ JsonDecodes(jsonl[<<"0", "1">>]["p1"])
  /\ JsonDecodes(jsonl[<<"0", "3">>]["p1"])
  /\ \E i \in 1..Len(latest_by_post[1]) :
       /\ latest_by_post[1][i]["post_id"] = "p1"
       /\ latest_by_post[1][i]["run_id"] = <<"0", "3">>

-----------------------------------------------------------------------------
(* C2 *)

\* the place of a column in the published table
ColumnOf(name) == CHOOSE i \in 1..Len(CSV_COLUMNS) : CSV_COLUMNS[i] = name

\* C2: once materialize_http has published the table, the price and the
\* mileage of every row are the price_usd and the mileage_mi extract_http
\* wrote in the latest record of the post.
C2_PublishedPriceIsExtracted ==
  \A m \in Procs :
    mpc[m] = "copied" =>
      \A i \in 1..Len(latest_by_post[m]) :
        /\ objects[FinalKey][i + 1][ColumnOf("price")] =
             CellText(latest_by_post[m][i], "price_usd")
        /\ objects[FinalKey][i + 1][ColumnOf("mileage")] =
             CellText(latest_by_post[m][i], "mileage_mi")

-----------------------------------------------------------------------------
(* C3 *)

\* C3: a materialize_http that ends before line 129 has copied the
\* temporary object, its scan done, ends with an exception, answered 500,
\* and the published object is the one it found when it started.
C3_FailureBeforePromotionKeepsPublished ==
  [][\A m \in Procs :
       (mpc[m] \in {"scanned", "written"} /\ mpc'[m] = "idle") =>
         /\ objects'[FinalKey] = finalAtStart[m]
         /\ mresponse'[m][1] = "exception"
         /\ mresponse'[m][2] = 500]_vars

\* a request that failed before promotion, a table published before it and
\* a different temporary object left behind
C3_Witness ==
  /\ mpc[1] = "idle"
  /\ mresponse[1][1] = "exception"
  /\ mresponse[1][3] \in {"write", "copy"}
  /\ objects[FinalKey] # NoObject
  /\ objects[TmpKey] # NoObject
  /\ objects[TmpKey] # objects[FinalKey]

-----------------------------------------------------------------------------
(* C4 *)

\* C4: with one materialize_http at a time, the published object is always
\* absent or the whole table of the last invocation that reached line 129,
\* and while an invocation runs it is either the object found at its start
\* or the whole table of latest_by_post.
C4_PublishedIsOldOrNew ==
  /\ objects[FinalKey] \in {NoObject, promoted}
  /\ \A m \in Procs :
       mpc[m] # "idle" =>
         objects[FinalKey] \in {finalAtStart[m], FullCsv(latest_by_post[m])}

\* the copy has just replaced a published table by a different one
C4_Witness ==
  /\ mpc[1] = "copied"
  /\ finalAtStart[1] # NoObject
  /\ objects[FinalKey] # finalAtStart[1]
  /\ objects[FinalKey] = FullCsv(latest_by_post[1])

-----------------------------------------------------------------------------
(* C5 *)

\* the records of recs with the post and the run id of e
Twins(e, recs) ==
  SelectSeq(recs, LAMBDA r : r["post_id"] = e["post_id"] /\ r["run_id"] = e["run_id"])

\* C5 as claimed: of the records of one post with the same run id, the one
\* processed last is the entry of latest_by_post.
C5_LaterProcessedWinsTie ==
  \A m \in Procs :
    mpc[m] # "idle" =>
      \A i \in 1..Len(latest_by_post[m]) :
        LET twins == Twins(latest_by_post[m][i], RecordsInOrder(list_run_ids))
        IN  latest_by_post[m][i] = twins[Len(twins)]

\* C5 as amended: of the records of one post with the same run id, the one
\* processed first is the entry of latest_by_post.
C5_EarlierProcessedWinsTie ==
  \A m \in Procs :
    mpc[m] # "idle" =>
      \A i \in 1..Len(latest_by_post[m]) :
        LET twins == Twins(latest_by_post[m][i], RecordsInOrder(list_run_ids))
        IN  latest_by_post[m][i] = twins[1]

\* a merge that met two different records of p1 with the same run id
C5_Witness ==
  /\ mpc[1] = "scanned"
  /\ \E i \in 1..Len(latest_by_post[1]) :
       LET twins == Twins(latest_by_post[1][i], RecordsInOrder(list_run_ids))
       IN  /\ Len(twins) = 2
           /\ twins[1] # twins[2]
           /\ latest_by_post[1][i] = twins[1]

-----------------------------------------------------------------------------
(* C6 *)

\* C6: once the overlapping invocations of materialize_http have ended, the
\* published object is the whole table of the invocation whose copy came
\* last.
C6_LastWriterPublishesItsTable ==
  ((\A m \in Procs : mpc[m] = "idle") /\ promoted # NoObject) =>
    objects[FinalKey] = promoted

-----------------------------------------------------------------------------
(* C7 *)

\* C7: extract_http and materialize_http answer 500 only when GCS_BUCKET is
\* missing; a record that fails to download does not end materialize_http.
C7_BatchOperationsComplete ==
  /\ eresponse[2] = 500 => ~env_bucket
  /\ \A m \in Procs : mresponse[m] # <<"exception", 500, "download">>

-----------------------------------------------------------------------------
(* C8 *)

\* a step of extract_http with overwrite on leaves every output of the run
\* that exists as it is
RewritesIdentically ==
  \A p \in PostIds :
    /\ jsonl[run_id][p] # NoBlob => jsonl'[run_id][p] = jsonl[run_id][p]
    /\ csvs[run_id][p] # NoBlob => csvs'[run_id][p] = csvs[run_id][p]

-----------------------------------------------------------------------------
(* C9 *)

\* "mileage: 50,000 80k miles"
LabeledAndShorthand ==
  <<"L", ":", " ", "5", "0", ",", "0", "0", "0", " ", "8", "0", "k", " ", "M">>

\* the mileage the tier rule prescribes: the result of the first tier, in
\* the order 1, 2, 3, that yields an integer
FirstTierResult(t) ==
  IF Tier1Result(t) # NoInt THEN Tier1Result(t)
  ELSE IF Tier2Result(t) # NoInt THEN Tier2Result(t)
  ELSE Tier3Result(t)

\* the tiers the rule allows to be consulted: each tier up to the first
\* that yields an integer
TiersAllowed(t) ==
  IF Tier1Result(t) # NoInt THEN {1}
  ELSE IF Tier2Result(t) # NoInt THEN {1, 2}
  ELSE {1, 2, 3}

\* C9: in parse_fields the mileage tiers are tried in the order labeled,
\* "N k miles", bare "N miles"; once a tier has yielded an integer no later
\* tier is consulted or changes it, and the returned mileage_mi is that
\* integer (absent when no tier yields one); "mileage: 50,000 80k miles"
\* yields 50000.
C9_MileageTierPrecedence ==
  /\ ppc \in {"tier2", "tier3", "return", "done"} =>
       /\ tried \subseteq TiersAllowed(text)
       /\ Tier1Result(text) # NoInt => mileage = Tier1Result(text)
  /\ ppc \in {"tier3", "return", "done"} /\ Tier1Result(text) = NoInt
       /\ Tier2Result(text) # NoInt => mileage = Tier2Result(text)
  /\ ppc = "done" =>
       /\ tried = TiersAllowed(text)
       /\ IF FirstTierResult(text) = NoInt
          THEN ~Has(out, "mileage_mi")
          ELSE Has(out, "mileage_mi") /\ out["mileage_mi"] = FirstTierResult(text)
       /\ text = LabeledAndShorthand => out["mileage_mi"] = 50000

\* parse_fields has returned 50000 for "mileage: 50,000 80k miles", whose
\* shorthand tier alone would give 80000
C9_Witness ==
  /\ ppc = "done"
  /\ text = LabeledAndShorthand
  /\ Tier2Result(text) = 80000
  /\ tried = {1}
  /\ out["mileage_mi"] = 50000

-----------------------------------------------------------------------------
(* C10 *)

\* the rows run_once would train on: a parseable date before the latest
\* date present, and a price
KnownTrainRows(b) ==
  SumOver({k \in RowKinds : /\ k.price
                            /\ k.date # NaT
                            /\ \E d \in DistinctDates(b) : k.date < d},
          b)

InsufficientData(b) ==
  \/ Cardinality(DistinctDates(b)) < 2
  \/ KnownTrainRows(b) < 40

\* C10: whenever run_once finds fewer than two distinct dates, or fewer than
\* 40 training rows with a known price, it fits no model, writes no
\* prediction output and returns the no-op status (HTTP 204: neither the
\* error 500 nor the success 200).
C10_NoopOnInsufficientData ==
  (dataState = "ok" /\ tpc # "data" /\ InsufficientData(df)) =>
     /\ ~fitted
     /\ \A d \in Dates : predictions[d] = NoRows
     /\ tpc = "done" => tresponse = <<"noop", 204>>

\* run_once has returned the no-op status for a dataset with two or more
\* dates and exactly 39 training rows with a price
C10_Witness ==
  /\ tpc = "done"
  /\ Cardinality(DistinctDates(df)) >= 2
  /\ KnownTrainRows(df) = 39
  /\ tresponse = <<"noop", 204>>
  /\ ~fitted

-----------------------------------------------------------------------------
(* C11 *)

\* C11: once run_once has split the frame, holdout_df is every row of the
\* greatest date of the frame and no other row, train_df holds only rows of
\* the frame with an earlier date, no kind of row is in both, and a row
\* without a date is in neither.
C11_HoldoutIsLatestDate ==
  today # NaT =>
    \A k \in RowKinds :
      /\ holdout_df[k] =
           (IF k.date = Greatest(DistinctDates(df)) THEN df[k] ELSE 0)
      /\ train_df[k] <= df[k]
      /\ train_df[k] > 0 => (k.date \in DistinctDates(df) /\ k.date < today)
      /\ ~(train_df[k] > 0 /\ holdout_df[k] > 0)
      /\ k.date = NaT => (train_df[k] = 0 /\ holdout_df[k] = 0)

\* a split of a frame with priced rows without a date, rows of an earlier
\* date and rows of the latest date
C11_Witness ==
  /\ tpc = "rows"
  /\ df[[date |-> NaT, price |-> TRUE]] > 0
  /\ Rows(train_df) > 0
  /\ Rows(holdout_df) > 0
  /\ Rows(train_df) + Rows(holdout_df) < Rows(df)

-----------------------------------------------------------------------------
(* C12 *)

\* every unit counted is skipped, failed or written, and no CSV is counted
\* without its JSONL
Accounted(c) ==
  /\ c.processed = c.skipped + c.errors + c.written_csv
  /\ c.written_csv <= c.written_jsonl
  /\ c.written_jsonl <= c.processed

\* C12: the counters extract_http returns, and the counters at every turn
\* of its loop, count each unit once, as skipped, failed or written, with
\* written_csv <= written_jsonl <= processed; the units counted and the
\* units left are the units listed.
C12_CountersAccountForUnits ==
  /\ Accounted(eresponse[3])
  /\ eresponse[3].processed <= Cardinality(PostIds)
  /\ epc = "loop" =>
       /\ Accounted(counts)
       /\ counts.processed + Len(txt_blobs) <= Len(list_txt_blob_names(run_id))

\* a batch returned with one unit skipped and one whose JSONL was written
\* and whose CSV upload failed
C12_Witness ==
  /\ eresponse[1] = "ok"
  /\ eresponse[3].processed = 2
  /\ eresponse[3].skipped = 1
  /\ eresponse[3].errors = 1
  /\ eresponse[3].written_jsonl = 1
  /\ eresponse[3].written_csv = 0

====
